---- MODULE Spec2Model ----
(***************************************************************************)
(* Model of the HeyGen avatar client: the session registry                 *)
(* (core/session_manager.py), the circuit breaker and the retrying         *)
(* decorator (utils/error_handlers.py) and the API client                  *)
(* (core/heygen_client.py).                                                *)
(*                                                                         *)
(* The Streamlit page (app.py) has its own client, HeyGenAvatarSession.    *)
(*                                                                         *)
(* Specifications:                                                         *)
(*   SpecSM  the SessionManager, driven by a sequence of calls;            *)
(*   SpecCB  one CircuitBreaker, driven by calls of a function that        *)
(*           returns or raises;                                            *)
(*   Spec    the HeyGenClient methods behind handle_api_errors and the     *)
(*           shared api_circuit_breaker;                                   *)
(*   SpecUI  the script of app.py, run after run, with st.session_state    *)
(*           kept between the runs;                                        *)
(*   SpecCC  the SessionManager under coroutines that call                 *)
(*           can_create_session, then create_session;                      *)
(*   SpecKA  HeyGenClient.keep_session_alive as a task next to a caller    *)
(*           of the client's methods;                                      *)
(*   SpecGV  get_streaming_compatible_voices (get_valid_voices_py.py),     *)
(*           applied to each answer of the vendor.                         *)
(***************************************************************************)
EXTENDS Integers, Sequences, FiniteSets, TLC

VARIABLES
    now,               \* time.time(), in ticks of 1/TicksPerSec second
    redis_client,      \* SessionManager.redis_client is set (Redis mode)
    sessions,          \* SessionManager.sessions: id -> session_info
    session_timeouts,  \* SessionManager.session_timeouts: id -> deadline
    redis,             \* the Redis server: id -> [val, exp] ("session:<id>")
    sm_last,           \* the last SessionManager call and what it returned
    cb,                \* a CircuitBreaker: its five attributes
    cb_pc,             \* "idle", or "in_func" while CircuitBreaker.call runs func
    cb_last,           \* how the last CircuitBreaker.call ended
    cb_consecutive,    \* history: failing calls since the last call that returned
    session_token,     \* HeyGenClient.session_token
    session_id,        \* HeyGenClient.session_id
    session_active,    \* HeyGenClient.session_active
    stack,             \* the decorated calls in progress, the innermost last
    delivered,         \* what a nested call handed to the call awaiting it
    last,              \* what the last call handed to the client's caller
    n_requests,        \* history: HTTP requests issued by the call in progress
    http_request,      \* history: the last HTTP request issued
    upstream_failures, \* history: attempts whose HTTP request failed
    keep_alive,        \* the task running HeyGenClient.keep_session_alive
    coroutines,        \* the callers of the SessionManager that check, then create
    voices_run,        \* get_valid_voices_py.py: a call of
                       \* get_streaming_compatible_voices, and what it returned
    st_session_state,  \* app.py: st.session_state, kept from one script run to the next
    vendor_open,       \* the vendor's streaming sessions that are open
    ui_run             \* app.py: the last run of the script, and what it rendered

smvars == <<redis_client, sessions, session_timeouts, redis, sm_last>>
cbvars == <<cb, cb_pc, cb_last, cb_consecutive>>
clvars == <<session_token, session_id, session_active, stack, delivered, last,
            n_requests, http_request, upstream_failures>>
uivars == <<st_session_state, vendor_open, ui_run>>
kavars == <<keep_alive>>
gvvars == <<voices_run>>
ccvars == <<coroutines>>
vars == <<now, smvars, cbvars, clvars, uivars, kavars, gvvars, ccvars>>

----------------------------------------------------------------------------
(* Bounds of the model and settings of the program.                        *)

\* Ticks per second of the modelled clock: time.time() is a float, the
\* session id keeps only its whole seconds.
TicksPerSec == 2

\* The last tick of the session-registry runs.
MaxTime == 3

\* settings.session_timeout, in seconds: the deployment's SESSION_TIMEOUT
\* (120 when the environment does not set it), scaled to the clock above.
session_timeout == 1

\* settings.keep_alive_interval, in seconds (30 in settings.py), scaled to
\* the clock above.
keep_alive_interval == 1

\* The last tick of the keep-alive runs.
MaxTimeKA == 4

\* The longest list of voices the vendor returns.
MaxVoices == 3

\* The coroutines that call the SessionManager concurrently.
NCoroutines == 2

\* settings.max_concurrent_sessions: the deployment's
\* MAX_CONCURRENT_SESSIONS (3 when the environment does not set it).
max_concurrent_sessions == 1

\* The user ids the callers pass (user_id: str): a name, and the empty string.
Users == {"u1", ""}

\* The users whose calls are run in Redis mode, where each session has a
\* Redis copy and an in-memory copy to follow.
RedisUsers == {"u1"}

\* Optional[...]: None, or one value.
None == <<>>
Some(x) == <<x>>

----------------------------------------------------------------------------
(* Dictionaries.                                                           *)

EmptyMap == [x \in {} |-> 0]

\* d[k] = v
DictSet(d, k, v) == [x \in (DOMAIN d) \cup {k} |-> IF x = k THEN v ELSE d[x]]

\* d.pop(k, None)
DictPop(d, k) == [x \in (DOMAIN d) \ {k} |-> d[x]]

\* d.update(u)
DictUpdate(d, u) ==
    [x \in (DOMAIN d) \cup (DOMAIN u) |-> IF x \in DOMAIN u THEN u[x] ELSE d[x]]

\* d.get(k)
DictGet(d, k) == IF k \in DOMAIN d THEN Some(d[k]) ELSE None

\* The session_data and updates the callers pass.
SessionDatas == {[k \in {"a", "c"} |-> 1]}
Updates == {[k \in {"a", "b"} |-> 2]}

----------------------------------------------------------------------------
(* SessionManager.                                                         *)

\* int(time.time())
IntTime(t) == t \div TicksPerSec

\* session_id = f"session_{user_id}_{int(time.time())}" (sid below: session_id
\* names the client's attribute)
SessionId(user_id, t) == <<user_id, IntTime(t)>>

\* The users who call the SessionManager, and the ids their calls can name.
Callers == IF redis_client THEN RedisUsers ELSE Users
SessionIds == Callers \X (0 .. IntTime(MaxTime))

\* settings.session_timeout seconds, in ticks
TimeoutTicks == session_timeout * TicksPerSec

\* json.dumps / json.loads of a session_info
JsonDumps(info) == <<"json", info>>
JsonLoads(text) == text[2]

\* The keys Redis still holds at time t (SETEX: the key is gone once its
\* time to live has run out).
RedisLive(r, t) == {k \in DOMAIN r : t < r[k].exp}

\* redis_client.setex(key, settings.session_timeout, value)
RedisSetex(r, k, v) == DictSet(r, k, [val |-> v, exp |-> now + TimeoutTicks])

\* redis_client.get(key)
RedisGet(r, k) == IF k \in RedisLive(r, now) THEN Some(r[k].val) ELSE None

\* redis_client.delete(key)
RedisDelete(r, k) == DictPop(r, k)

NewSessionInfo(sid, user_id, session_data) ==
    [id |-> sid, user_id |-> user_id, created_at |-> now,
     last_activity |-> now, data |-> session_data, active |-> TRUE]

\* create_session(user_id, session_data); redis_ok: setex did not raise
create_session(user_id, session_data, redis_ok) ==
    LET sid == SessionId(user_id, now)
        session_info == NewSessionInfo(sid, user_id, session_data)
    IN  /\ IF redis_client /\ redis_ok
           THEN /\ redis' = RedisSetex(redis, sid, JsonDumps(session_info))
                /\ UNCHANGED sessions
           ELSE /\ sessions' = DictSet(sessions, sid, session_info)
                /\ UNCHANGED redis
        /\ session_timeouts' = DictSet(session_timeouts, sid, now + TimeoutTicks)
        /\ sm_last' = [op |-> "create_session", arg |-> user_id, ret |-> sid]
        /\ UNCHANGED <<gvvars, now, uivars, kavars, redis_client, cbvars, clvars>>

\* What get_session(sid) returns; redis_ok: redis.get did not raise
GetSessionResult(sid, redis_ok) ==
    IF redis_client /\ redis_ok /\ RedisGet(redis, sid) # None
    THEN Some(JsonLoads(RedisGet(redis, sid)[1]))
    ELSE DictGet(sessions, sid)

\* get_session(sid)
get_session(sid, redis_ok) ==
    /\ sm_last' = [op |-> "get_session", arg |-> sid,
                   ret |-> GetSessionResult(sid, redis_ok)]
    /\ UNCHANGED <<gvvars, now, uivars, kavars, redis_client, sessions, session_timeouts, redis, cbvars, clvars>>

\* Whether get_session took the session from the in-memory dictionary (the
\* object update_session then changes in place).
FromMemory(sid, redis_ok) ==
    ~(redis_client /\ redis_ok /\ RedisGet(redis, sid) # None)

Updated(session, updates) ==
    [session EXCEPT !.last_activity = now, !.data = DictUpdate(@, updates)]

\* update_session(sid, updates); get_ok, set_ok: redis.get and
\* redis.setex did not raise
update_session(sid, updates, get_ok, set_ok) ==
    LET found == GetSessionResult(sid, get_ok)
    IN  /\ IF found = None
           THEN /\ UNCHANGED <<sessions, redis>>
                /\ sm_last' = [op |-> "update_session", arg |-> sid, ret |-> FALSE]
           ELSE LET session == Updated(found[1], updates)
                    in_place == IF FromMemory(sid, get_ok)
                                THEN DictSet(sessions, sid, session)
                                ELSE sessions
                IN  /\ IF redis_client /\ set_ok
                       THEN /\ redis' = RedisSetex(redis, sid, JsonDumps(session))
                            /\ sessions' = in_place
                       ELSE /\ sessions' = DictSet(sessions, sid, session)
                            /\ UNCHANGED redis
                    /\ sm_last' = [op |-> "update_session", arg |-> sid, ret |-> TRUE]
        /\ UNCHANGED <<gvvars, now, uivars, kavars, redis_client, session_timeouts, cbvars, clvars>>

\* Mutant: the deadline of the deleted session is kept.
AfterDeleteKeepsDeadline(state, sid, redis_ok) ==
    <<DictPop(state[1], sid),
      state[2],
      IF redis_client /\ redis_ok THEN RedisDelete(state[3], sid) ELSE state[3]>>

\* The registry after delete_session(sid), as <<sessions,
\* session_timeouts, redis>>; redis_ok: redis.delete did not raise
AfterDelete(state, sid, redis_ok) ==
    <<DictPop(state[1], sid),
      DictPop(state[2], sid),
      IF redis_client /\ redis_ok THEN RedisDelete(state[3], sid) ELSE state[3]>>

\* delete_session(sid)
delete_session(sid, redis_ok) ==
    LET after == AfterDelete(<<sessions, session_timeouts, redis>>, sid, redis_ok)
    IN  /\ sessions' = after[1]
        /\ session_timeouts' = after[2]
        /\ redis' = after[3]
        /\ sm_last' = [op |-> "delete_session", arg |-> sid, ret |-> TRUE]
        /\ UNCHANGED <<gvvars, now, uivars, kavars, redis_client, cbvars, clvars>>

\* Mutant: a deadline equal to the current time counts as expired.
ExpiredSessionsAtDeadline(timeouts, current_time) ==
    {sid \in DOMAIN timeouts : current_time >= timeouts[sid]}

\* The expired_sessions list of cleanup_expired_sessions
ExpiredSessions(timeouts, current_time) ==
    {sid \in DOMAIN timeouts : current_time > timeouts[sid]}

RECURSIVE DeleteAll(_, _, _)
\* for sid in expired_sessions: await self.delete_session(sid);
\* failed: the ids whose redis.delete raises
DeleteAll(state, ids, failed) ==
    IF ids = {} THEN state
    ELSE LET sid == CHOOSE x \in ids : TRUE
         IN  DeleteAll(AfterDelete(state, sid, sid \notin failed),
                       ids \ {sid}, failed)

\* cleanup_expired_sessions()
cleanup_expired_sessions(failed) ==
    LET expired_sessions == ExpiredSessions(session_timeouts, now)
        after == DeleteAll(<<sessions, session_timeouts, redis>>, expired_sessions, failed)
    IN  /\ sessions' = after[1]
        /\ session_timeouts' = after[2]
        /\ redis' = after[3]
        /\ sm_last' = [op |-> "cleanup_expired_sessions", arg |-> expired_sessions,
                       ret |-> Cardinality(expired_sessions)]
        /\ UNCHANGED <<gvvars, now, uivars, kavars, redis_client, cbvars, clvars>>

\* Mutant: the owner is not compared.
CountedWhoeverOwns(session, user_id) == session.active

\* session.get("active") and (not user_id or session.get("user_id") == user_id)
Counted(session, user_id) ==
    session.active /\ (user_id = "" \/ session.user_id = user_id)

\* The in-memory loop of get_active_session_count
MemoryCount(user_id) ==
    Cardinality({k \in DOMAIN sessions : Counted(sessions[k], user_id)})

\* get_active_session_count(user_id); read: the Redis keys read before a
\* Redis call raised, redis_ok: none raised (read is then every key)
get_active_session_count(user_id, read, redis_ok) ==
    LET redis_count ==
            Cardinality({k \in read : Counted(JsonLoads(redis[k].val), user_id)})
    IN  IF redis_client
        THEN IF redis_ok THEN redis_count ELSE redis_count + MemoryCount(user_id)
        ELSE MemoryCount(user_id)

\* can_create_session(user_id)
can_create_session(user_id, read, redis_ok) ==
    /\ sm_last' = [op |-> "can_create_session", arg |-> user_id,
                   ret |-> get_active_session_count(user_id, read, redis_ok)
                              < max_concurrent_sessions]
    /\ UNCHANGED <<gvvars, now, uivars, kavars, redis_client, sessions, session_timeouts, redis, cbvars, clvars>>

\* The clock advances; Redis drops the keys whose time to live has run out.
SMTick ==
    /\ now < MaxTime
    /\ now' = now + 1
    /\ redis' = [k \in RedisLive(redis, now + 1) |-> redis[k]]
    /\ UNCHANGED <<ccvars, gvvars, redis_client, sessions, session_timeouts, sm_last, cbvars, clvars,
                   uivars, kavars>>

\* Redis calls can only fail where there is a Redis client.
Outcomes == IF redis_client THEN BOOLEAN ELSE {TRUE}

CreateSession ==
    \E user_id \in Callers, session_data \in SessionDatas, redis_ok \in Outcomes :
        /\ create_session(user_id, session_data, redis_ok)
        /\ UNCHANGED ccvars

GetSession ==
    \E sid \in SessionIds, redis_ok \in Outcomes :
        /\ get_session(sid, redis_ok)
        /\ UNCHANGED ccvars

UpdateSession ==
    \E sid \in SessionIds, updates \in Updates, get_ok, set_ok \in Outcomes :
        /\ update_session(sid, updates, get_ok, set_ok)
        /\ UNCHANGED ccvars

DeleteSession ==
    \E sid \in SessionIds, redis_ok \in Outcomes :
        /\ delete_session(sid, redis_ok)
        /\ UNCHANGED ccvars

CleanupExpiredSessions ==
    \E failed \in SUBSET ExpiredSessions(session_timeouts, now) :
        /\ (~redis_client => failed = {})
        /\ cleanup_expired_sessions(failed)
        /\ UNCHANGED ccvars

CanCreateSession ==
    \E user_id \in Callers, redis_ok \in Outcomes :
        \E read \in SUBSET RedisLive(redis, now) :
            /\ (redis_ok => read = RedisLive(redis, now))
            /\ (~redis_client => read = {})
            /\ can_create_session(user_id, read, redis_ok)
            /\ UNCHANGED ccvars

\* The callers of the registry that follow check-then-create:
\*     if await session_manager.can_create_session(u):
\*         await session_manager.create_session(u, data)
\* each a coroutine of the one event loop. A coroutine gives way to the
\* others only where an await suspends: at asyncio.to_thread, that is at the
\* Redis calls. With no Redis client nothing suspends, and the two calls
\* run as one step.
Coroutines == 1 .. NCoroutines

Idle == [pc |-> "idle", user_id |-> ""]
Allowed(user_id) == [pc |-> "allowed", user_id |-> user_id]

\* if await session_manager.can_create_session(u): ...
AfterCheck(user_id, ret) == IF ret THEN Allowed(user_id) ELSE Idle

\* Redis mode: the coroutine's can_create_session, from its Redis reads on
CCCheck ==
    /\ redis_client
    /\ \E c \in Coroutines :
           /\ coroutines[c].pc = "idle"
           /\ \E user_id \in Callers, redis_ok \in Outcomes :
                  \E read \in SUBSET RedisLive(redis, now) :
                      /\ (redis_ok => read = RedisLive(redis, now))
                      /\ can_create_session(user_id, read, redis_ok)
                      /\ coroutines' =
                             [coroutines EXCEPT ![c] = AfterCheck(user_id, sm_last'.ret)]

\* Redis mode: the coroutine's create_session, from its Redis write on
CCCreate ==
    /\ redis_client
    /\ \E c \in Coroutines :
           /\ coroutines[c].pc = "allowed"
           /\ \E session_data \in SessionDatas, redis_ok \in Outcomes :
                  create_session(coroutines[c].user_id, session_data, redis_ok)
           /\ coroutines' = [coroutines EXCEPT ![c] = Idle]

\* In-memory mode: the check and the create it allows, with no suspension
CCCheckCreate ==
    /\ ~redis_client
    /\ \E c \in Coroutines, user_id \in Callers, session_data \in SessionDatas :
           /\ coroutines[c].pc = "idle"
           /\ IF AfterCheck(user_id, get_active_session_count(user_id, {}, TRUE)
                                         < max_concurrent_sessions).pc = "allowed"
              THEN create_session(user_id, session_data, TRUE)
              ELSE can_create_session(user_id, {}, TRUE)
           /\ UNCHANGED coroutines

CoroutinesInit == coroutines = [c \in Coroutines |-> Idle]

\* SessionManager.__init__
SessionManagerInit(redis_available) ==
    /\ redis_client = redis_available
    /\ sessions = EmptyMap
    /\ session_timeouts = EmptyMap
    /\ redis = EmptyMap
    /\ sm_last = [op |-> "init", arg |-> None, ret |-> None]

----------------------------------------------------------------------------
(* CircuitBreaker.                                                         *)

\* CircuitBreaker() as the module builds api_circuit_breaker
failure_threshold == 5
recovery_timeout == 60

\* CircuitBreaker(failure_threshold, recovery_timeout) as SpecCB builds it
CBThreshold == 3
CBRecovery == 2

\* The last tick of the circuit-breaker runs, and the failure_count beyond
\* which no further failing call is tried.
MaxTimeCB == 10
MaxFailures == 5

\* CircuitBreaker.__init__
CircuitBreakerNew(threshold, timeout) ==
    [failure_threshold |-> threshold, recovery_timeout |-> timeout,
     failure_count |-> 0, last_failure_time |-> None, state |-> "CLOSED"]

\* Mutant: the cooldown ends one comparison early.
RecoveryElapsedAtTimeout(self) ==
    now - self.last_failure_time[1] >= self.recovery_timeout * TicksPerSec

\* time.time() - self.last_failure_time > self.recovery_timeout
RecoveryElapsed(self) ==
    now - self.last_failure_time[1] > self.recovery_timeout * TicksPerSec

\* CircuitBreaker.call up to func(*args, **kwargs): "raise" for
\* CircuitBreakerError, otherwise the breaker with which func is invoked
CallCheck(self) ==
    IF self.state = "OPEN"
    THEN IF RecoveryElapsed(self)
         THEN [do |-> "invoke", self |-> [self EXCEPT !.state = "HALF_OPEN"]]
         ELSE [do |-> "raise", self |-> self]
    ELSE [do |-> "invoke", self |-> self]

\* Mutant: reset forgets to clear last_failure_time.
ResetKeepsFailureTime(self) ==
    [self EXCEPT !.failure_count = 0, !.state = "CLOSED"]

\* CircuitBreaker.reset
Reset(self) ==
    [self EXCEPT !.failure_count = 0, !.last_failure_time = None, !.state = "CLOSED"]

\* Mutant: the circuit opens only on the failure that reaches the threshold.
RecordFailureOpensAtThreshold(self) ==
    LET counted == [self EXCEPT !.failure_count = @ + 1,
                                !.last_failure_time = Some(now)]
    IN  IF counted.failure_count = counted.failure_threshold
        THEN [counted EXCEPT !.state = "OPEN"]
        ELSE counted

\* CircuitBreaker.record_failure
RecordFailure(self) ==
    LET counted == [self EXCEPT !.failure_count = @ + 1,
                                !.last_failure_time = Some(now)]
    IN  IF counted.failure_count >= counted.failure_threshold
        THEN [counted EXCEPT !.state = "OPEN"]
        ELSE counted

\* CircuitBreaker.call after func returned
CallReturned(self) == IF self.state = "HALF_OPEN" THEN Reset(self) ELSE self

\* CircuitBreaker.call after func raised
CallRaised(self) == RecordFailure(self)

\* call(func): the check before func
CBCallEnter ==
    /\ cb_pc = "idle"
    /\ LET check == CallCheck(cb)
       IN  /\ cb' = check.self
           /\ IF check.do = "raise"
              THEN /\ cb_pc' = "idle"
                   /\ cb_last' = [outcome |-> "CircuitBreakerError", invoked |-> FALSE,
                                  entered |-> cb.state]
              ELSE /\ cb_pc' = "in_func"
                   /\ cb_last' = [outcome |-> "pending", invoked |-> TRUE,
                                  entered |-> cb.state]
    /\ UNCHANGED <<ccvars, gvvars, now, uivars, kavars, smvars, clvars, cb_consecutive>>

\* call(func): func returns
CBFuncReturns ==
    /\ cb_pc = "in_func"
    /\ cb' = CallReturned(cb)
    /\ cb_pc' = "idle"
    /\ cb_last' = [cb_last EXCEPT !.outcome = "return"]
    /\ cb_consecutive' = 0
    /\ UNCHANGED <<ccvars, gvvars, now, uivars, kavars, smvars, clvars>>

\* call(func): func raises
CBFuncRaises ==
    /\ cb_pc = "in_func"
    /\ cb.failure_count < MaxFailures
    /\ cb' = CallRaised(cb)
    /\ cb_pc' = "idle"
    /\ cb_last' = [cb_last EXCEPT !.outcome = "raise"]
    /\ cb_consecutive' = cb_consecutive + 1
    /\ UNCHANGED <<ccvars, gvvars, now, uivars, kavars, smvars, clvars>>

CBTick ==
    /\ now < MaxTimeCB
    /\ now' = now + 1
    /\ UNCHANGED <<ccvars, gvvars, smvars, cbvars, clvars, uivars, kavars>>

CircuitBreakerInit(threshold, timeout) ==
    /\ cb = CircuitBreakerNew(threshold, timeout)
    /\ cb_pc = "idle"
    /\ cb_last = [outcome |-> "none", invoked |-> FALSE, entered |-> "CLOSED"]
    /\ cb_consecutive = 0

----------------------------------------------------------------------------
(* The upstream (the vendor's HTTP API) and the exceptions.                *)

Tokens == {"t1", "t2"}
VendorSessionIds == {"s1", "s2"}

\* An HTTP exchange: no response at all (the request raised
\* httpx.RequestError), or a response with its status, whether its
\* content-type header is "application/json", and its body.
\*   "limit"        JSON that mentions "concurrent session limit"
\*   "voice"        JSON that mentions "voice_not_found"
\*   "other"        any other JSON object, without "data", "token", "session_id"
\*   "invalid"      not JSON
\*   "token_top"    {"token": val}          "token_nested"  {"data": {"token": val}}
\*   "sid_top"      {"session_id": val}     "sid_nested"    {"data": {"session_id": val}}
\*   "data_null"    {"data": null}
NoResponse == [status |-> 0, json_ctype |-> FALSE, body |-> "none", val |-> None]

Response(status, json_ctype, body, val) ==
    [status |-> status, json_ctype |-> json_ctype, body |-> body, val |-> val]

ErrorStatuses == {401, 429, 500}

ErrorResponses ==
    {Response(c, TRUE, "other", None) : c \in ErrorStatuses}
        \cup {Response(400, j, b, None) :
                j \in BOOLEAN, b \in {"limit", "voice", "other", "invalid"}}

TokenResponses ==
    {NoResponse} \cup ErrorResponses
        \cup {Response(200, TRUE, b, Some(t)) :
                b \in {"token_top", "token_nested"}, t \in Tokens}
        \cup {Response(200, TRUE, b, None) : b \in {"other", "invalid"}}

NewSessionResponses ==
    {NoResponse} \cup ErrorResponses
        \cup {Response(200, TRUE, b, Some(v)) :
                b \in {"sid_top", "sid_nested"}, v \in VendorSessionIds}
        \cup {Response(200, TRUE, b, None) : b \in {"other", "invalid", "data_null"}}

PlainResponses ==
    {NoResponse} \cup ErrorResponses
        \cup {Response(200, TRUE, b, None) : b \in {"other", "invalid"}}

\* An exception: its class, HeyGenAPIError.status_code, and the response an
\* httpx.HTTPStatusError carries.
Exc(type, status, response) == [type |-> type, status |-> status, response |-> response]
NoExc == Exc("none", None, NoResponse)

\* How one attempt, or one call, ended.
Returned(value, response) ==
    [kind |-> "return", exc |-> NoExc, value |-> value, response |-> response]
Raised(exc, response) ==
    [kind |-> "raise", exc |-> exc, value |-> <<"none">>, response |-> response]
NoResult == [kind |-> "none", exc |-> NoExc, value |-> <<"none">>, response |-> NoResponse]

\* await self._client.post(...) followed by response.raise_for_status():
\* the exception they raise, or NoExc
RaiseForStatus(response) ==
    IF response = NoResponse THEN Exc("RequestError", None, response)
    ELSE IF response.status >= 400 THEN Exc("HTTPStatusError", None, response)
    ELSE NoExc

----------------------------------------------------------------------------
(* HeyGenClient: the bodies of its methods. Each gives the client's fields *)
(* after the body ran against one HTTP exchange, and how the body ended.   *)

After(token, sid, active, requested, result) ==
    [session_token |-> token, session_id |-> sid, session_active |-> active,
     requested |-> requested, result |-> result]

\* The body raised or returned without touching the client or the upstream.
Untouched(result) == After(session_token, session_id, session_active, FALSE, result)

\* generate_session_token
generate_session_token(response) ==
    LET error == RaiseForStatus(response)
    IN  IF error # NoExc
        THEN After(session_token, session_id, session_active, TRUE, Raised(error, response))
        ELSE IF response.body = "invalid"
        THEN After(session_token, session_id, session_active, TRUE,
                   Raised(Exc("ValueError", None, NoResponse), response))
        ELSE IF response.body = "token_nested"
        THEN After(response.val, session_id, session_active, TRUE,
                   Returned(<<"token", response.val[1]>>, response))
        ELSE After(session_token, session_id, session_active, TRUE,
                   Raised(Exc("HeyGenAPIError", None, NoResponse), response))

\* The raise statements inside the try block of the 400 branch
BadRequestRaised(response) ==
    IF response.body = "invalid" THEN Exc("ValueError", None, NoResponse)
    ELSE IF response.body = "voice" THEN Exc("HeyGenAPIError", Some(400), NoResponse)
    ELSE IF response.body = "limit" THEN Exc("SessionLimitError", Some(400), NoResponse)
    ELSE Exc("HeyGenAPIError", Some(400), NoResponse)

\* except Exception as e: raise HeyGenAPIError(f"Bad request: {error_text}", 400)
\* (the clause encloses the raise statements above, and catches each)
BadRequestCaught(exc) == Exc("HeyGenAPIError", Some(400), NoResponse)

\* A JSON value: a key that is absent, null, a string, or an object with the
\* keys "data", "session_id" and "token", each absent or a value.
Absent == <<"absent">>
Null == <<"null">>
Str(s) == <<"str", s>>
Obj(data, sid, token) == <<"obj", data, sid, token>>

\* response.json() of a streaming.new response
ResponseJson(response) ==
    CASE response.body = "sid_top" -> Obj(Absent, Str(response.val[1]), Absent)
      [] response.body = "sid_nested" ->
             Obj(Obj(Absent, Str(response.val[1]), Absent), Absent, Absent)
      [] response.body = "data_null" -> Obj(Null, Absent, Absent)
      [] OTHER -> Obj(Absent, Absent, Absent)

\* Mutant: the body is taken as the payload even when it has a "data" key.
SessionDataIsBody(data) == data

\* session_data = data["data"] if "data" in data else data
SessionData(data) == IF data[2] # Absent THEN data[2] ELSE data

\* session_data.get("session_id"): None when the payload has none
DictGetSessionId(session_data) ==
    IF session_data[3] = Absent THEN None ELSE Some(session_data[3][2])

\* create_session from the POST of streaming.new on (a token is stored)
create_session_post(response) ==
    LET error == RaiseForStatus(response)
    IN  IF response.status = 400
        THEN After(session_token, session_id, session_active, TRUE,
                   Raised(BadRequestCaught(BadRequestRaised(response)), response))
        ELSE IF error # NoExc
        THEN After(session_token, session_id, session_active, TRUE, Raised(error, response))
        ELSE IF response.body = "invalid"
        THEN After(session_token, session_id, session_active, TRUE,
                   Raised(Exc("ValueError", None, NoResponse), response))
        ELSE LET session_data == SessionData(ResponseJson(response))
             IN  IF session_data = Null
                 THEN \* None has no get
                      After(session_token, session_id, session_active, TRUE,
                            Raised(Exc("AttributeError", None, NoResponse), response))
                 ELSE After(session_token, DictGetSessionId(session_data), session_active,
                            TRUE, Returned(session_data, response))

\* start_session
start_session(response) ==
    LET error == RaiseForStatus(response)
    IN  IF session_id = None
        THEN Untouched(Raised(Exc("HeyGenAPIError", None, NoResponse), NoResponse))
        ELSE IF error # NoExc
        THEN After(session_token, session_id, session_active, TRUE, Raised(error, response))
        ELSE IF response.body = "invalid"
        THEN After(session_token, session_id, session_active, TRUE,
                   Raised(Exc("ValueError", None, NoResponse), response))
        ELSE After(session_token, session_id, TRUE, TRUE,
                   Returned(<<"start_data">>, response))

\* Mutant: send_task posts whether or not the session is active.
SendTaskWithoutGuard(response) ==
    LET error == RaiseForStatus(response)
    IN  IF error # NoExc
        THEN After(session_token, session_id, session_active, TRUE, Raised(error, response))
        ELSE After(session_token, session_id, session_active, TRUE,
                   Returned(<<"bool", TRUE>>, response))

\* send_task
send_task(response) ==
    LET error == RaiseForStatus(response)
    IN  IF ~session_active
        THEN Untouched(Raised(Exc("HeyGenAPIError", None, NoResponse), NoResponse))
        ELSE IF error # NoExc
        THEN After(session_token, session_id, session_active, TRUE, Raised(error, response))
        ELSE After(session_token, session_id, session_active, TRUE,
                   Returned(<<"bool", TRUE>>, response))

\* Mutant: stop_session forgets the token with the session.
StopSessionClearsToken(response) ==
    IF session_id = None
    THEN Untouched(Returned(<<"bool", TRUE>>, NoResponse))
    ELSE After(None, None, FALSE, TRUE, Returned(<<"bool", TRUE>>, response))

\* stop_session
stop_session(response) ==
    IF session_id = None
    THEN Untouched(Returned(<<"bool", TRUE>>, NoResponse))
    ELSE After(session_token, None, FALSE, TRUE, Returned(<<"bool", TRUE>>, response))

\* get_session_info
get_session_info(response) ==
    LET error == RaiseForStatus(response)
    IN  IF session_id = None
        THEN Untouched(Raised(Exc("HeyGenAPIError", None, NoResponse), NoResponse))
        ELSE IF error # NoExc
        THEN After(session_token, session_id, session_active, TRUE, Raised(error, response))
        ELSE IF response.body = "invalid"
        THEN After(session_token, session_id, session_active, TRUE,
                   Raised(Exc("ValueError", None, NoResponse), response))
        ELSE After(session_token, session_id, session_active, TRUE,
                   Returned(<<"json">>, response))

Methods ==
    {"generate_session_token", "create_session", "start_session", "send_task",
     "stop_session", "get_session_info"}

\* The HTTP exchanges a method's request can meet.
Responses(method) ==
    CASE method = "generate_session_token" -> TokenResponses
      [] method = "create_session" -> NewSessionResponses
      [] OTHER -> PlainResponses

Body(method, response) ==
    CASE method = "generate_session_token" -> generate_session_token(response)
      [] method = "create_session" -> create_session_post(response)
      [] method = "start_session" -> start_session(response)
      [] method = "send_task" -> send_task(response)
      [] method = "stop_session" -> stop_session(response)
      [] method = "get_session_info" -> get_session_info(response)

----------------------------------------------------------------------------
(* handle_api_errors: the wrapper around one attempt, and the retries.     *)

\* stop_after_attempt(3)
StopAfterAttempt == 3

\* The except clauses of wrapper
MapException(exc) ==
    IF exc.type = "HTTPStatusError"
    THEN LET response == exc.response
         IN  IF response.status = 429
             THEN Exc("HeyGenAPIError", Some(429), NoResponse)
             ELSE IF response.status = 400
             THEN IF response.json_ctype /\ response.body = "invalid"
                  THEN Exc("ValueError", None, NoResponse)
                  ELSE IF response.json_ctype /\ response.body = "limit"
                  THEN Exc("SessionLimitError", Some(400), NoResponse)
                  ELSE Exc("HeyGenAPIError", Some(400), NoResponse)
             ELSE Exc("HeyGenAPIError", Some(response.status), NoResponse)
    ELSE IF exc.type = "RequestError"
    THEN Exc("HeyGenAPIError", None, NoResponse)
    ELSE exc

MapResult(result) ==
    IF result.kind = "raise"
    THEN [result EXCEPT !.exc = MapException(result.exc)]
    ELSE result

\* retry_if_exception_type((httpx.HTTPError, HeyGenAPIError))
RetryIf(exc) ==
    exc.type \in {"HTTPStatusError", "RequestError", "HeyGenAPIError", "SessionLimitError"}

\* Mutant: every exception is retried.
ShouldRetryAnyException(frame) ==
    frame.result.kind = "raise" /\ frame.attempt < StopAfterAttempt

\* tenacity: whether the attempt that just ended is followed by another
ShouldRetry(frame) ==
    /\ frame.result.kind = "raise"
    /\ RetryIf(frame.result.exc)
    /\ frame.attempt < StopAfterAttempt

\* The text and task_type a caller passes to send_task.
Texts == {"hello", "bye"}
TaskTypes == {"talk", "repeat"}
NoArgs == <<"none", "none">>

\* The arguments a caller can pass to a method.
Args(method) == IF method = "send_task" THEN Texts \X TaskTypes ELSE {NoArgs}

Frame(method) ==
    [method |-> method, args |-> NoArgs, attempt |-> 1, stage |-> "start",
     result |-> NoResult]

\* The URL path each method requests.
Endpoint(method) ==
    CASE method = "generate_session_token" -> "streaming.create_token"
      [] method = "create_session" -> "streaming.new"
      [] method = "start_session" -> "streaming.start"
      [] method = "send_task" -> "streaming.task"
      [] method = "stop_session" -> "streaming.stop"
      [] method = "get_session_info" -> "streaming.session_info"

NoRequest ==
    [endpoint |-> "none", session_id |-> None, text |-> "none", task_type |-> "none",
     bearer |-> None]

\* Mutant: the request names no session.
RequestWithoutSessionId(frame) ==
    [endpoint |-> Endpoint(frame.method), session_id |-> None,
     text |-> frame.args[1], task_type |-> frame.args[2],
     bearer |-> IF frame.method = "generate_session_token" THEN None ELSE session_token]

\* The request a method's body builds: its path, the session_id, text and
\* task_type of its JSON (or query) and the token of its Authorization header.
RequestOf(frame) ==
    [endpoint |-> Endpoint(frame.method),
     session_id |-> IF frame.method \in {"generate_session_token", "create_session"}
                    THEN None ELSE session_id,
     text |-> frame.args[1], task_type |-> frame.args[2],
     bearer |-> IF frame.method = "generate_session_token" THEN None ELSE session_token]

Top == stack[Len(stack)]
SetTop(frame) == [stack EXCEPT ![Len(stack)] = frame]
Pop == SubSeq(stack, 1, Len(stack) - 1)

\* The attempt's HTTP request failed (the awaited call, or raise_for_status).
UpstreamFailed(after) ==
    /\ after.requested
    /\ after.result.kind = "raise"
    /\ after.result.exc.type \in {"HTTPStatusError", "RequestError"}

\* The body ran against one HTTP exchange: the client's fields, the attempt's
\* result as the wrapper passes it on, and the histories.
Ran(after) ==
    /\ session_token' = after.session_token
    /\ session_id' = after.session_id
    /\ session_active' = after.session_active
    /\ stack' = SetTop([Top EXCEPT !.stage = "decide", !.result = MapResult(after.result)])
    /\ n_requests' = IF after.requested THEN n_requests + 1 ELSE n_requests
    /\ http_request' = IF after.requested THEN RequestOf(Top) ELSE http_request
    /\ upstream_failures' =
           IF UpstreamFailed(after) /\ upstream_failures < cb.failure_threshold
           THEN upstream_failures + 1 ELSE upstream_failures

\* A caller awaits one of the client's methods.
Call ==
    /\ stack = <<>>
    /\ \E method \in Methods : \E args \in Args(method) :
           stack' = <<[Frame(method) EXCEPT !.args = args]>>
    /\ last' = [method |-> "none", attempts |-> 0, requests |-> 0, result |-> NoResult]
    /\ n_requests' = 0
    /\ http_request' = NoRequest
    /\ delivered' = None
    /\ UNCHANGED <<ccvars, gvvars, now, uivars, kavars, smvars, cbvars, session_token, session_id,
                   session_active, upstream_failures>>

\* wrapper: api_circuit_breaker.call(func, ...) and the await of what it
\* returns. func is a coroutine function: calling it returns a coroutine and
\* raises nothing, whatever the coroutine does when awaited.
BeginAttempt ==
    /\ stack # <<>>
    /\ Top.stage = "start"
    /\ LET check == CallCheck(cb)
       IN  IF check.do = "raise"
           THEN /\ cb' = check.self
                /\ stack' = SetTop([Top EXCEPT !.stage = "decide",
                       !.result = Raised(Exc("CircuitBreakerError", None, NoResponse),
                                         NoResponse)])
                /\ UNCHANGED <<session_token, session_id, session_active, n_requests,
                               http_request, upstream_failures>>
           ELSE /\ cb' = CallReturned(check.self)
                /\ IF Top.method = "create_session" /\ session_token = None
                   THEN \* await self.generate_session_token()
                        /\ stack' = Append(SetTop([Top EXCEPT !.stage = "await_token"]),
                                           Frame("generate_session_token"))
                        /\ UNCHANGED <<session_token, session_id, session_active,
                                       n_requests, http_request, upstream_failures>>
                   ELSE \E response \in Responses(Top.method) :
                            Ran(Body(Top.method, response))
    /\ delivered' = None
    /\ UNCHANGED <<ccvars, gvvars, now, uivars, kavars, smvars, cb_pc, cb_last, cb_consecutive, last>>

\* create_session after its await of generate_session_token
ResumeCreate ==
    /\ stack # <<>>
    /\ Top.stage = "await_token"
    /\ delivered # None
    /\ IF delivered[1].kind = "raise"
       THEN Ran(Untouched(delivered[1]))
       ELSE \E response \in Responses("create_session") :
                Ran(create_session_post(response))
    /\ delivered' = None
    /\ UNCHANGED <<ccvars, gvvars, now, uivars, kavars, smvars, cbvars, last>>

\* tenacity: another attempt, or the call ends with the attempt's result
Decide ==
    /\ stack # <<>>
    /\ Top.stage = "decide"
    /\ IF ShouldRetry(Top)
       THEN /\ stack' = SetTop([Top EXCEPT !.attempt = @ + 1, !.stage = "start",
                                           !.result = NoResult])
            /\ UNCHANGED <<delivered, last>>
       ELSE /\ stack' = Pop
            /\ IF Len(stack) = 1
               THEN /\ last' = [method |-> Top.method, attempts |-> Top.attempt,
                                requests |-> n_requests, result |-> Top.result]
                    /\ UNCHANGED delivered
               ELSE /\ delivered' = Some(Top.result)
                    /\ UNCHANGED last
    /\ UNCHANGED <<ccvars, gvvars, now, uivars, kavars, smvars, cbvars, session_token, session_id,
                   session_active, n_requests, http_request, upstream_failures>>

\* HeyGenClient.__init__
HeyGenClientInit ==
    /\ session_token = None
    /\ session_id = None
    /\ session_active = FALSE
    /\ stack = <<>>
    /\ delivered = None
    /\ last = [method |-> "none", attempts |-> 0, requests |-> 0, result |-> NoResult]
    /\ n_requests = 0
    /\ http_request = NoRequest
    /\ upstream_failures = 0

----------------------------------------------------------------------------
(* HeyGenClient.keep_session_alive, run as a task next to the client's     *)
(* caller: the two take turns where they await.                            *)

\* The methods the caller awaits while the task runs, each from its call to
\* its end between two steps of the task. (create_session is awaited once a
\* token is stored: the bodies of these methods leave the client as it is
\* when they raise, so every attempt of a call starts from the same fields.)
KAMethods == {"generate_session_token", "create_session", "start_session",
              "stop_session"}

\* The upstream's answers in these runs: no answer, or 200 with a JSON object.
KAResponses(method) ==
    {r \in Responses(method) :
        /\ r.status \in {0, 200}
        /\ r.body \in {"none", "other", "token_nested", "sid_nested"}}

\* One attempt of a decorated method, as wrapper passes its result on
AttemptResult(method, response) ==
    IF CallCheck(cb).do = "raise"
    THEN Raised(Exc("CircuitBreakerError", None, NoResponse), NoResponse)
    ELSE MapResult(Body(method, response).result)

RECURSIVE FinalAttempt(_, _, _)
\* The attempt with which a call of a decorated method ends: n, or when
\* tenacity retries after it, a later one; responses[n]: the upstream's
\* answer to attempt n
FinalAttempt(method, responses, n) ==
    LET frame == [Frame(method) EXCEPT !.attempt = n, !.stage = "decide",
                      !.result = AttemptResult(method, responses[n])]
    IN  IF ShouldRetry(frame) THEN FinalAttempt(method, responses, n + 1) ELSE n

\* The client's fields after the call, and the call's result
CallOutcome(method, responses) ==
    LET response == responses[FinalAttempt(method, responses, 1)]
    IN  IF CallCheck(cb).do = "raise"
        THEN Untouched(AttemptResult(method, response))
        ELSE [Body(method, response) EXCEPT
                 !.result = AttemptResult(method, response)]

\* settings.keep_alive_interval seconds, in ticks
IntervalTicks == keep_alive_interval * TicksPerSec

\* Mutant: a ping that raises ends the loop.
AfterPingFailureEnds(result) == IF result.kind = "raise" THEN "done" ELSE "sleep"

\* try: await self.get_session_info() except Exception: ...: whatever the
\* ping did, the loop goes on to asyncio.sleep
AfterPing(result) == "sleep"

\* The caller awaits a method.
KACall ==
    /\ \E method \in KAMethods :
           /\ method = "create_session" => session_token # None
           /\ \E responses \in [1 .. StopAfterAttempt -> KAResponses(method)] :
                  LET after == CallOutcome(method, responses)
                  IN  /\ session_token' = after.session_token
                      /\ session_id' = after.session_id
                      /\ session_active' = after.session_active
                      /\ keep_alive' =
                             [keep_alive EXCEPT !.deactivated =
                                 \/ @
                                 \/ /\ keep_alive.pc \in {"check", "sleep"}
                                    /\ session_active /\ ~after.session_active]
    /\ cb' = IF CallCheck(cb).do = "raise" THEN cb ELSE CallReturned(CallCheck(cb).self)
    /\ UNCHANGED <<ccvars, gvvars, now, smvars, cb_pc, cb_last, cb_consecutive, uivars, stack,
                   delivered, last, n_requests, http_request, upstream_failures>>

\* The task is created.
KAStart ==
    /\ keep_alive.pc = "off"
    /\ keep_alive' = [keep_alive EXCEPT !.pc = "check"]
    /\ UNCHANGED <<ccvars, gvvars, now, smvars, cbvars, clvars, uivars>>

\* while self.session_active: the test succeeds, the loop pings and starts
\* to sleep
KAPing ==
    /\ keep_alive.pc = "check"
    /\ session_active
    /\ \E responses \in [1 .. StopAfterAttempt -> KAResponses("get_session_info")] :
           LET result == CallOutcome("get_session_info", responses).result
           IN  keep_alive' =
                   [pc |-> AfterPing(result), wake |-> now + IntervalTicks,
                    last_ping |-> Some(now),
                    pings |-> IF keep_alive.pings < 2 THEN keep_alive.pings + 1 ELSE 2,
                    failed |-> keep_alive.failed \/ result.kind = "raise",
                    deactivated |-> FALSE, stopped |-> FALSE]
    /\ cb' = IF CallCheck(cb).do = "raise" THEN cb ELSE CallReturned(CallCheck(cb).self)
    /\ UNCHANGED <<ccvars, gvvars, now, smvars, cb_pc, cb_last, cb_consecutive, clvars, uivars>>

\* while self.session_active: the test fails, the coroutine returns
KAExit ==
    /\ keep_alive.pc = "check"
    /\ ~session_active
    /\ keep_alive' = [keep_alive EXCEPT !.pc = "done", !.deactivated = FALSE,
                                        !.stopped = keep_alive.deactivated]
    /\ UNCHANGED <<ccvars, gvvars, now, smvars, cbvars, clvars, uivars>>

\* await asyncio.sleep(settings.keep_alive_interval) is over
KAWake ==
    /\ keep_alive.pc = "sleep"
    /\ now >= keep_alive.wake
    /\ keep_alive' = [keep_alive EXCEPT !.pc = "check"]
    /\ UNCHANGED <<ccvars, gvvars, now, smvars, cbvars, clvars, uivars>>

KATick ==
    /\ now < MaxTimeKA
    /\ now' = now + 1
    /\ UNCHANGED <<ccvars, gvvars, smvars, cbvars, clvars, uivars, kavars>>

\* No keep_session_alive task yet. pings: the pings made, counted up to 2;
\* failed: one of them raised; deactivated: session_active went from
\* True to False since the loop last tested it; stopped: it had when the
\* loop ended.
KeepAliveInit ==
    keep_alive = [pc |-> "off", wake |-> 0, last_ping |-> None, pings |-> 0,
                  failed |-> FALSE,
                  deactivated |-> FALSE, stopped |-> FALSE]

----------------------------------------------------------------------------
(* app.py: HeyGenAvatarSession and the script of the page. Streamlit runs  *)
(* main() from its first line on every user interaction and on st.rerun(); *)
(* only st.session_state survives from one run to the next.                *)

\* A HeyGenAvatarSession object: its session_id and session_token
AvatarSession(sid, token) == [session_id |-> sid, session_token |-> token]

\* st.session_state: whether it has the key 'heygen_session', and the values
\* of heygen_session, session_active and session_data
SessionState(has_key, heygen_session, active, data) ==
    [has_key |-> has_key, heygen_session |-> heygen_session,
     session_active |-> active, session_data |-> data]

\* HeyGenAvatarSession.close_session; ok: the POST of streaming.stop
\* succeeded (_make_request raises otherwise). stopped: the vendor session
\* the POST closed.
close_session(self, ok) ==
    IF self.session_id = None
    THEN [self |-> self, raised |-> FALSE, stopped |-> None]
    ELSE IF ok
    THEN [self |-> AvatarSession(None, None), raised |-> FALSE, stopped |-> self.session_id]
    ELSE [self |-> self, raised |-> TRUE, stopped |-> None]

\* HeyGenAvatarSession.send_message; ok: the POST of streaming.task
\* succeeded. posted: the text and the session_id of the POST.
send_message(self, text, ok) ==
    IF self.session_id = None
    THEN [raised |-> TRUE, posted |-> None]
    ELSE [raised |-> ~ok, posted |-> Some(<<text, self.session_id[1]>>)]

\* How the vendor answers a new HeyGenAvatarSession's
\* create_streaming_session: the token request fails, streaming.new fails,
\* its answer has no session_id, or it opens the session sid under token.
CreateOutcome(kind, sid, token) == [kind |-> kind, sid |-> sid, token |-> token]

CreateOutcomes ==
    {CreateOutcome(k, None, None) : k \in {"token_fails", "new_fails", "no_session_id"}}
        \cup {CreateOutcome("created", Some(v), Some(t)) :
                v \in VendorSessionIds, t \in Tokens}

\* HeyGenAvatarSession(api_key).create_streaming_session(...): the object
\* afterwards, and whether the call raised (main then drops the object)
create_streaming_session(outcome) ==
    IF outcome.kind = "created"
    THEN [self |-> AvatarSession(outcome.sid, outcome.token), raised |-> FALSE]
    ELSE [self |-> AvatarSession(None, None), raised |-> TRUE]

\* cleanup_on_startup(): st.session_state afterwards, and the vendor session
\* it closed
cleanup_on_startup(st, close_ok) ==
    IF ~st.has_key
    THEN [st |-> st, stopped |-> None]
    ELSE IF st.heygen_session # None /\ st.session_active
    THEN LET closed == close_session(st.heygen_session[1], close_ok)
         IN  [st |-> [st EXCEPT !.heygen_session = Some(closed.self),
                                !.session_active = FALSE],
              stopped |-> closed.stopped]
    ELSE [st |-> [st EXCEPT !.session_active = FALSE], stopped |-> None]

\* What one run of the script leaves: st.session_state, the vendor's open
\* sessions, the controls it rendered ("welcome", "start": the Start Avatar
\* Session button, "chat": the message box, Send Message and Stop Session),
\* whether it ended in st.rerun(), and the message it posted.
RunResult(st, vendor, shown, rerun, posted) ==
    [st |-> st, vendor |-> vendor, shown |-> shown, rerun |-> rerun, posted |-> posted]

\* The vendor's open sessions without the one a close_session stopped
Without(vendor, stopped) ==
    IF stopped = None THEN vendor ELSE vendor \ {stopped[1]}

\* main(), from "if api_key and selected_voice_id" on; st and vendor: as
\* cleanup_on_startup left them
main_content(st, vendor, click, text, up) ==
    LET st2 == IF ~st.has_key
               THEN [st EXCEPT !.has_key = TRUE, !.heygen_session = None,
                               !.session_active = FALSE]
               ELSE st
    IN  IF ~st2.session_active
        THEN IF click = "start"
             THEN LET made == create_streaming_session(up.create)
                  IN  IF made.raised
                      THEN RunResult(st2, vendor, "start", FALSE, None)
                      ELSE RunResult(
                               [st2 EXCEPT !.heygen_session = Some(made.self),
                                           !.session_active = TRUE,
                                           !.session_data = made.self.session_id],
                               vendor \cup {made.self.session_id[1]},
                               "start", TRUE, None)
             ELSE RunResult(st2, vendor, "start", FALSE, None)
        ELSE IF click = "send"
             THEN IF st2.heygen_session = None
                  THEN RunResult(st2, vendor, "chat", FALSE, None)
                  ELSE RunResult(st2, vendor, "chat", FALSE,
                           send_message(st2.heygen_session[1], text, up.send_ok).posted)
             ELSE IF click = "stop"
             THEN LET closed == IF st2.heygen_session = None
                                THEN [self |-> AvatarSession(None, None),
                                      raised |-> FALSE, stopped |-> None]
                                ELSE close_session(st2.heygen_session[1], up.stop_ok)
                  IN  IF closed.raised
                      THEN RunResult(st2, vendor, "chat", FALSE, None)
                      ELSE RunResult([st2 EXCEPT !.heygen_session = None,
                                                 !.session_active = FALSE],
                                     Without(vendor, closed.stopped),
                                     "chat", TRUE, None)
             ELSE RunResult(st2, vendor, "chat", FALSE, None)

\* main(): api_key: the sidebar has an API key; voices: get_valid_voices
\* returned a voice, so that one is selected; click: the button whose click
\* started the run; up: how the vendor answers the run's requests
main(api_key, voices, click, text, up) ==
    LET cleaned == cleanup_on_startup(st_session_state, up.close_ok)
        vendor == Without(vendor_open, cleaned.stopped)
    IN  IF api_key /\ voices
        THEN main_content(cleaned.st, vendor, click, text, up)
        ELSE RunResult(cleaned.st, vendor, "welcome", FALSE, None)

\* The vendor's answers to the requests of one run.
Upstreams ==
    [close_ok : BOOLEAN, create : CreateOutcomes, send_ok : BOOLEAN, stop_ok : BOOLEAN]

\* The buttons the last run rendered: a click on one of them starts a run.
Clickable ==
    CASE ui_run.shown = "start" -> {"start"}
      [] ui_run.shown = "chat" -> {"send", "stop"}
      [] OTHER -> {}

\* One run of the script.
Run(trigger, api_key, voices, click, text, up) ==
    LET cleaned == cleanup_on_startup(st_session_state, up.close_ok)
        result == main(api_key, voices, click, text, up)
    IN  \* the vendor opens a session under an id that is not in use
        /\ (up.create.kind = "created" =>
               up.create.sid[1] \notin Without(vendor_open, cleaned.stopped))
        /\ st_session_state' = result.st
        /\ vendor_open' = result.vendor
        /\ ui_run' = [trigger |-> trigger, api_key |-> api_key, voices |-> voices,
                      click |-> click, shown |-> result.shown, rerun |-> result.rerun,
                      posted |-> result.posted]
        /\ UNCHANGED <<ccvars, gvvars, now, smvars, cbvars, clvars, kavars>>

\* The user changes a widget or clicks a button: the script runs.
ScriptRun ==
    /\ ~ui_run.rerun
    /\ \E api_key, voices \in BOOLEAN, click \in Clickable \cup {"none"},
          text \in Texts, up \in Upstreams :
           /\ click # "none" => api_key
           /\ Run("user", api_key, voices, click, text, up)

\* st.rerun(): the script runs again, with the widgets as they were.
ScriptRerun ==
    /\ ui_run.rerun
    /\ \E voices \in BOOLEAN, text \in Texts, up \in Upstreams :
           Run("rerun", ui_run.api_key, voices, "none", text, up)

\* A browser session opens the page: st.session_state is empty.
StreamlitInit ==
    /\ st_session_state = SessionState(FALSE, None, FALSE, None)
    /\ vendor_open = {}
    /\ ui_run = [trigger |-> "none", api_key |-> FALSE, voices |-> FALSE,
                 click |-> "none", shown |-> "none", rerun |-> FALSE, posted |-> None]

----------------------------------------------------------------------------
(* get_valid_voices_py.py: get_streaming_compatible_voices.                *)

\* The JSON values of a voice's "support_interactive_avatar", as written in
\* the response, "absent" when the voice has no such key.
Flags == {"absent", "true", "false", "null", "0", "\"yes\""}

\* A voice of the vendor's list.
Voice(voice_id, flag) == [voice_id |-> voice_id, support_interactive_avatar |-> flag]
Voices == {Voice(v, f) : v \in {"v1", "v2"}, f \in Flags}

\* The lists of at most n voices
VoiceLists(n) == UNION {[1 .. k -> Voices] : k \in 0 .. n}

\* What requests.get(url, ...) meets: the request raises, the status is an
\* error, the body is not JSON, or the body is a JSON object: without
\* "data", with "data": null, or with the list data.voices.
VoicesResponse(kind, voices) == [kind |-> kind, voices |-> voices]

VoicesResponses ==
    {VoicesResponse(k, <<>>) :
        k \in {"request_fails", "status_error", "invalid_json", "no_data", "data_null"}}
        \cup {VoicesResponse("voices", l) : l \in VoiceLists(MaxVoices)}

\* bool(value) of a decoded JSON value
Bool(flag) == flag \in {"true", "\"yes\""}

\* Mutant: a voice is kept when it has the key, whatever its value.
HasSupportKey(voice) == voice.support_interactive_avatar # "absent"

\* voice.get("support_interactive_avatar", False), as the filter tests it
SupportsInteractiveAvatar(voice) ==
    IF voice.support_interactive_avatar = "absent"
    THEN FALSE
    ELSE Bool(voice.support_interactive_avatar)

\* get_streaming_compatible_voices(api_key)
get_streaming_compatible_voices(response) ==
    IF response.kind \in {"request_fails", "status_error"}
    THEN <<>>   \* except requests.exceptions.RequestException
    ELSE IF response.kind \in {"invalid_json", "data_null"}
    THEN <<>>   \* response.json() raises, None has no get: except Exception
    ELSE LET voices == IF response.kind = "no_data" THEN <<>> ELSE response.voices
         IN  SelectSeq(voices, SupportsInteractiveAvatar)

\* The script calls the function.
GetVoices ==
    /\ ~voices_run.called
    /\ voices_run' = [voices_run EXCEPT
           !.called = TRUE,
           !.returned = get_streaming_compatible_voices(voices_run.response)]
    /\ UNCHANGED <<ccvars, now, smvars, cbvars, clvars, uivars, kavars>>

\* The vendor's answer awaits the call.
VoicesRun(response) == [response |-> response, called |-> FALSE, returned |-> <<>>]

VoicesInit == voices_run = VoicesRun(VoicesResponse("no_data", <<>>))

----------------------------------------------------------------------------
(* Specifications.                                                         *)

\* The modules as imported (settings.redis_url unset): session_manager,
\* api_circuit_breaker, and a new client.
Init ==
    /\ now = 0
    /\ SessionManagerInit(FALSE)
    /\ CircuitBreakerInit(failure_threshold, recovery_timeout)
    /\ HeyGenClientInit
    /\ StreamlitInit
    /\ KeepAliveInit
    /\ CoroutinesInit
    /\ VoicesInit

Next ==
    \/ Call
    \/ BeginAttempt
    \/ ResumeCreate
    \/ Decide

Spec == Init /\ [][Next]_vars

\* session_manager without or with a Redis client, as settings.redis_url says
InitSM ==
    /\ now = 0
    /\ \E redis_available \in BOOLEAN : SessionManagerInit(redis_available)
    /\ CircuitBreakerInit(failure_threshold, recovery_timeout)
    /\ HeyGenClientInit
    /\ StreamlitInit
    /\ KeepAliveInit
    /\ CoroutinesInit
    /\ VoicesInit

NextSM ==
    \/ SMTick
    \/ CreateSession
    \/ GetSession
    \/ UpdateSession
    \/ DeleteSession
    \/ CleanupExpiredSessions
    \/ CanCreateSession

SpecSM == InitSM /\ [][NextSM]_vars

\* The SessionManager under concurrent callers that check, then create
InitCC == InitSM

NextCC ==
    \/ SMTick
    \/ CCCheck
    \/ CCCreate
    \/ CCCheckCreate

SpecCC == InitCC /\ [][NextCC]_vars

InitCB ==
    /\ now = 0
    /\ SessionManagerInit(FALSE)
    /\ CircuitBreakerInit(CBThreshold, CBRecovery)
    /\ HeyGenClientInit
    /\ StreamlitInit
    /\ KeepAliveInit
    /\ CoroutinesInit
    /\ VoicesInit

NextCB ==
    \/ CBTick
    \/ CBCallEnter
    \/ CBFuncReturns
    \/ CBFuncRaises

SpecCB == InitCB /\ [][NextCB]_vars

\* The client, its caller and the keep-alive task
NextKA ==
    \/ KACall
    \/ KAStart
    \/ KAPing
    \/ KAExit
    \/ KAWake
    \/ KATick

SpecKA == Init /\ [][NextKA]_vars

\* get_streaming_compatible_voices, against each answer of the vendor
InitGV ==
    /\ now = 0
    /\ SessionManagerInit(FALSE)
    /\ CircuitBreakerInit(failure_threshold, recovery_timeout)
    /\ HeyGenClientInit
    /\ StreamlitInit
    /\ KeepAliveInit
    /\ CoroutinesInit
    /\ \E response \in VoicesResponses : voices_run = VoicesRun(response)

NextGV == GetVoices

SpecGV == InitGV /\ [][NextGV]_vars

\* The page, opened by one browser session
InitUI == Init

NextUI ==
    \/ ScriptRun
    \/ ScriptRerun

SpecUI == InitUI /\ [][NextUI]_vars

----------------------------------------------------------------------------
(* The session registry: claims.                                           *)

\* The sessions user_id owns: in the dictionary, or in Redis
Owned(user_id) ==
    {k \in DOMAIN sessions : sessions[k].user_id = user_id}
        \cup {k \in RedisLive(redis, now) : JsonLoads(redis[k].val).user_id = user_id}

\* C1: after any sequence of create_session, update_session, delete_session
\* and cleanup_expired_sessions calls, no user owns more than
\* max_concurrent_sessions stored sessions (create_session rejects the
\* creation that would exceed the cap).
C1_PerUserCap ==
    \A user_id \in Users : Cardinality(Owned(user_id)) <= max_concurrent_sessions

\* The deadlines that are earlier than the time t
PastDeadline(timeouts, t) == {k \in DOMAIN timeouts : timeouts[k] < t}

\* C9: cleanup_expired_sessions removes from sessions and session_timeouts
\* exactly the sessions whose deadline is earlier than the current time,
\* leaves every other session and deadline as they were, returns the number
\* it removed, and leaves no session with a deadline in the past.
C9_CleanupRemovesExactlyExpired ==
    [][CleanupExpiredSessions =>
        LET past == PastDeadline(session_timeouts, now)
        IN  /\ DOMAIN sessions' = (DOMAIN sessions) \ past
            /\ DOMAIN session_timeouts' = (DOMAIN session_timeouts) \ past
            /\ \A k \in DOMAIN sessions' : sessions'[k] = sessions[k]
            /\ \A k \in DOMAIN session_timeouts' : session_timeouts'[k] = session_timeouts[k]
            /\ \A k \in (DOMAIN redis') \ past : k \in DOMAIN redis /\ redis'[k] = redis[k]
            /\ sm_last'.ret = Cardinality(past)
            /\ ~redis_client =>
                  sm_last'.ret = Cardinality((DOMAIN sessions) \ (DOMAIN sessions'))
            /\ \A k \in DOMAIN session_timeouts' : ~(session_timeouts'[k] < now')
    ]_vars

\* C9 witness: a sweep has removed one session and kept another.
C9_Witness ==
    /\ ~redis_client
    /\ sm_last.op = "cleanup_expired_sessions"
    /\ sm_last.ret = 1
    /\ DOMAIN sessions # {}
    /\ sm_last.arg \cap DOMAIN sessions = {}

\* C10: get_session never returns a session whose deadline (creation time +
\* session_timeout) has passed.
C10_GetNeverReturnsExpired ==
    [][GetSession =>
        (sm_last'.ret # None => ~(now' > sm_last'.ret[1].created_at + TimeoutTicks))
    ]_vars

\* The stored sessions: in the dictionary, or in Redis, as <<id, session_info>>
Stored ==
    {<<k, sessions[k]>> : k \in DOMAIN sessions}
        \cup {<<k, JsonLoads(redis[k].val)>> : k \in RedisLive(redis, now)}

\* C11: in every reachable state of the SessionManager (Redis mode with
\* failing Redis calls included) each stored session has one user_id, the
\* user passed to the create_session that made it (update_session never
\* changes it), and has an expiry entry in session_timeouts.
C11_StoredSessionHasOwnerAndExpiry ==
    \A s \in Stored :
        /\ s[2].user_id = s[1][1]
        /\ s[2].id = s[1]
        /\ s[1] \in DOMAIN session_timeouts

\* The stored sessions with the active flag set whose user_id is u
ActiveOf(u) == {k \in DOMAIN sessions : sessions[k].active /\ sessions[k].user_id = u}

\* can_create_session(u) answered by the count of u's own active sessions
\* and left the registry alone.
AnswersByOwnCount(u) ==
    /\ sm_last'.ret = (Cardinality(ActiveOf(u)) < max_concurrent_sessions)
    /\ UNCHANGED <<sessions, session_timeouts, redis>>

\* C12: in in-memory mode can_create_session(u) returns True exactly when
\* the number of stored sessions with the active flag set and user_id = u
\* is below max_concurrent_sessions, counts no other user's sessions, and
\* does not modify the registry.
C12_CanCreateCountsOwnSessions ==
    [][(CanCreateSession /\ ~redis_client) => AnswersByOwnCount(sm_last'.arg)]_vars

\* C12 as amended: the same for every non-empty u; for the empty user id
\* the answer is by the count of all active sessions.
C12_CanCreateCountsOwnSessionsOfNamedUser ==
    [][(CanCreateSession /\ ~redis_client) =>
        IF sm_last'.arg # ""
        THEN AnswersByOwnCount(sm_last'.arg)
        ELSE /\ sm_last'.ret =
                    (Cardinality({k \in DOMAIN sessions : sessions[k].active})
                        < max_concurrent_sessions)
             /\ UNCHANGED <<sessions, session_timeouts, redis>>
    ]_vars

\* C12 witness: u1 may create a session while another user is at the cap.
C12_Witness ==
    /\ ~redis_client
    /\ sm_last.op = "can_create_session"
    /\ sm_last.arg = "u1"
    /\ sm_last.ret = TRUE
    /\ Cardinality(DOMAIN sessions) >= max_concurrent_sessions
    /\ ActiveOf("u1") = {}

----------------------------------------------------------------------------
(* The circuit breaker: claims.                                            *)

\* C4: the breaker moves from CLOSED to OPEN only after failure_threshold
\* consecutive failing calls; a call that returns restarts the count.
C4_OpensOnlyOnConsecutiveFailures ==
    [][(cb.state = "CLOSED" /\ cb'.state = "OPEN")
        => cb_consecutive' >= cb.failure_threshold]_vars

\* Within the cooldown: no more than recovery_timeout seconds since the last
\* recorded failure.
WithinCooldown ==
    /\ cb.last_failure_time # None
    /\ now - cb.last_failure_time[1] <= cb.recovery_timeout * TicksPerSec

\* C6: a call made while OPEN and within the cooldown raises
\* CircuitBreakerError, does not invoke the function, and leaves state,
\* failure_count and last_failure_time as they were.
C6_OpenRejectsWithinCooldown ==
    [][(CBCallEnter /\ cb.state = "OPEN" /\ WithinCooldown) =>
        /\ cb' = cb
        /\ cb_pc' = "idle"
        /\ cb_last'.outcome = "CircuitBreakerError"
        /\ ~cb_last'.invoked
    ]_vars

\* C6 witness: a call was rejected exactly recovery_timeout seconds after the
\* last failure.
C6_Witness ==
    /\ cb.state = "OPEN"
    /\ cb_pc = "idle"
    /\ cb_last.outcome = "CircuitBreakerError"
    /\ now - cb.last_failure_time[1] = cb.recovery_timeout * TicksPerSec

\* C7: the breaker leaves OPEN only to HALF_OPEN, by a call made more than
\* recovery_timeout seconds after the last failure, which invokes the
\* function; when that call returns the breaker is CLOSED with failure_count
\* 0 and last_failure_time None; CLOSED is reached from no other state.
C7_LeavesOpenOnlyThroughHalfOpen ==
    /\ [][cb.state = "OPEN" => cb'.state \in {"OPEN", "HALF_OPEN"}]_vars
    /\ [][(cb.state = "OPEN" /\ cb'.state = "HALF_OPEN") =>
            /\ ~WithinCooldown
            /\ cb_pc = "idle" /\ cb_pc' = "in_func"
            /\ cb_last'.invoked]_vars
    /\ [][(CBCallEnter /\ cb.state = "OPEN" /\ ~WithinCooldown) =>
            cb'.state = "HALF_OPEN" /\ cb_pc' = "in_func"]_vars
    /\ [][(CBFuncReturns /\ cb.state = "HALF_OPEN") =>
            /\ cb'.state = "CLOSED"
            /\ cb'.failure_count = 0
            /\ cb'.last_failure_time = None]_vars
    /\ [][(cb.state # "CLOSED" /\ cb'.state = "CLOSED") =>
            /\ cb.state = "HALF_OPEN"
            /\ cb_pc = "in_func"
            /\ cb_last'.outcome = "return"]_vars

\* C7 witness: a call found the breaker OPEN, returned, and left it CLOSED.
C7_Witness ==
    /\ cb_last.entered = "OPEN"
    /\ cb_last.outcome = "return"
    /\ cb.state = "CLOSED"
    /\ cb.failure_count = 0
    /\ cb.last_failure_time = None

----------------------------------------------------------------------------
(* The client and the decorator: claims.                                   *)

\* C2: when streaming.new answers 400 with a body that contains "concurrent
\* session limit", create_session raises SessionLimitError to its caller.
C2_SessionLimitErrorRaised ==
    (/\ last.method = "create_session"
     /\ last.result.response.status = 400
     /\ last.result.response.body = "limit")
        => (last.result.kind = "raise" /\ last.result.exc.type = "SessionLimitError")

\* C3: when the token endpoint answers successfully with {"token": t},
\* generate_session_token returns t, stores t in session_token, and (called
\* by the client's caller, at its first attempt) has issued exactly one POST.
C3_TopLevelTokenReturned ==
    \A i \in DOMAIN stack :
        (/\ stack[i].method = "generate_session_token"
         /\ stack[i].stage = "decide"
         /\ stack[i].result.response.status = 200
         /\ stack[i].result.response.body = "token_top")
            => /\ stack[i].result.kind = "return"
               /\ stack[i].result.value = <<"token", stack[i].result.response.val[1]>>
               /\ session_token = stack[i].result.response.val
               /\ (Len(stack) = 1 /\ stack[i].attempt = 1) => n_requests = 1

SuccessfulNew(response) ==
    response.status = 200 /\ response.body \in {"sid_top", "sid_nested", "other"}

\* The session payload of a successful response: the "data" object when
\* present, otherwise the body.
PayloadOf(response) ==
    IF response.body = "other"
    THEN Obj(Absent, Absent, Absent)
    ELSE Obj(Absent, Str(response.val[1]), Absent)

\* C13: with a session token present, create_session requests no new token
\* and issues one POST; when streaming.new answers successfully it returns
\* the session payload (the body's "data" object when present, otherwise the
\* body) and sets session_id to the payload's session_id.
C13_CreateSessionReturnsPayload ==
    [][(BeginAttempt /\ Top.method = "create_session" /\ session_token # None) =>
        LET result == stack'[Len(stack)].result
        IN  /\ Len(stack') = Len(stack)
            /\ session_token' = session_token
            /\ n_requests' = n_requests + 1
            /\ SuccessfulNew(result.response) =>
                   /\ result.kind = "return"
                   /\ result.value = PayloadOf(result.response)
                   /\ session_id' = result.response.val
    ]_vars

\* C13 witness: a create_session call has returned the "data" object of the
\* response after a single request, and session_id is that session's id.
C13_Witness ==
    /\ last.method = "create_session"
    /\ last.requests = 1
    /\ last.result.kind = "return"
    /\ last.result.response.body = "sid_nested"
    /\ last.result.value = Obj(Absent, Str("s1"), Absent)
    /\ session_id = Some("s1")

\* C5: every failure of a decorated method against the upstream is recorded
\* by api_circuit_breaker, so that after failure_threshold of them the
\* breaker is OPEN.
C5_UpstreamFailuresOpenBreaker ==
    upstream_failures >= cb.failure_threshold => cb.state = "OPEN"

\* The call whose attempt just ended hands this attempt's result on: to the
\* client's caller, or to the call that awaits it.
EndsWith(frame) ==
    /\ stack' = Pop
    /\ IF Len(stack) = 1
       THEN last'.result = frame.result /\ last'.method = frame.method
       ELSE delivered' = Some(frame.result)

\* C8: a call of a decorated method makes at most 3 attempts; another
\* attempt follows only an attempt that raised httpx.HTTPError or
\* HeyGenAPIError (SessionLimitError included); the call ends with the first
\* attempt that returns, with any other exception (CircuitBreakerError
\* included) as soon as it is raised, and with the third attempt's exception.
C8_BoundedRetries ==
    [][/\ \A i \in DOMAIN stack' : stack'[i].attempt <= 3
       /\ (stack # <<>> /\ Top.stage = "decide") =>
            /\ (Len(stack') = Len(stack)) =>
                   /\ Top.result.kind = "raise"
                   /\ Top.result.exc.type \in
                          {"HTTPStatusError", "RequestError", "HeyGenAPIError",
                           "SessionLimitError"}
                   /\ stack'[Len(stack)].attempt = Top.attempt + 1
                   /\ stack'[Len(stack)].stage = "start"
            /\ Top.result.kind = "return" => EndsWith(Top)
            /\ (/\ Top.result.kind = "raise"
                /\ Top.result.exc.type \in {"CircuitBreakerError", "ValueError"})
                   => EndsWith(Top)
            /\ Top.attempt = 3 => EndsWith(Top)
       /\ \A n \in 1 .. 3 :
            ~ShouldRetry([Frame("send_task") EXCEPT !.attempt = n, !.stage = "decide",
                !.result = Raised(Exc("CircuitBreakerError", None, NoResponse),
                                  NoResponse)])
    ]_vars

\* C8 witness: a call has ended with the exception of its third attempt,
\* after three requests.
C8_Witness ==
    /\ last.attempts = 3
    /\ last.requests = 3
    /\ last.result.kind = "raise"
    /\ last.result.exc.type = "HeyGenAPIError"

----------------------------------------------------------------------------
(* The Streamlit page: claims.                                             *)

\* C15: once Start Avatar Session has succeeded, st.session_state's
\* session_active stays True from run to run until the user presses Stop
\* Session: the following run shows the chat controls, and a Send Message
\* click posts the text to the vendor session, which is still open.
C15_SessionStaysActiveUntilStop ==
    [][(st_session_state.session_active /\ ui_run'.click # "stop") =>
        /\ st_session_state'.session_active
        /\ (ui_run'.api_key /\ ui_run'.voices) => ui_run'.shown = "chat"
        /\ ui_run'.click = "send" =>
              /\ ui_run'.posted # None
              /\ ui_run'.posted[1][2] \in vendor_open'
    ]_vars

----------------------------------------------------------------------------
(* The keep-alive loop: claims.                                            *)

\* Each turn of the loop whose test finds session_active true pings once and
\* sleeps keep_alive_interval, whatever the ping did, and the ping leaves
\* session_id and session_active alone; two pings are at least
\* keep_alive_interval apart.
PingsWhileActive ==
    /\ KAPing =>
          /\ keep_alive'.pc = "sleep"
          /\ keep_alive'.wake = now + IntervalTicks
          /\ UNCHANGED <<session_id, session_active>>
          /\ keep_alive.last_ping # None =>
                now - keep_alive.last_ping[1] >= IntervalTicks
    /\ (keep_alive.pc = "check" /\ keep_alive'.pc # "check" /\ session_active) =>
          keep_alive'.pc = "sleep"

\* C16: keep_session_alive pings get_session_info once per
\* keep_alive_interval for as long as session_active is true; a failed ping
\* never ends the loop and never changes session_id or session_active; once
\* stop_session has set session_active to False the loop ends at its next
\* test.
C16_KeepAliveEndsAfterStop ==
    [][/\ PingsWhileActive
       /\ (keep_alive.pc = "check" /\ keep_alive'.pc # "check"
              /\ keep_alive.deactivated) => keep_alive'.pc = "done"
    ]_vars

\* C16 as amended: the loop ends at the first test that finds session_active
\* False; when start_session has set it to True again before that test, the
\* loop goes on.
C16_KeepAliveEndsWhenInactive ==
    [][/\ PingsWhileActive
       /\ (keep_alive.pc = "check" /\ keep_alive'.pc # "check" /\ ~session_active) =>
              keep_alive'.pc = "done"
       /\ (keep_alive.pc # "done" /\ keep_alive'.pc = "done") => ~session_active
       /\ (keep_alive.pc = "check" /\ keep_alive'.pc # "check"
              /\ keep_alive.deactivated /\ session_active) => keep_alive'.pc = "sleep"
    ]_vars

\* C16 witness: the loop pinged twice, a ping failed, stop_session then
\* cleared session_active, and the loop ended at its next test.
C16_Witness ==
    /\ keep_alive.pc = "done"
    /\ keep_alive.pings = 2
    /\ keep_alive.failed
    /\ keep_alive.stopped
    /\ ~session_active

----------------------------------------------------------------------------
(* The voice lookup: claims.                                               *)

\* The JSON values Python takes for true.
Truthy == {"true", "\"yes\""}

\* The places of a list whose voice has a truthy support_interactive_avatar
\* ("0" stands for the number 0, which is not)
Compatible(voices) ==
    {i \in 1 .. Len(voices) : voices[i].support_interactive_avatar \in Truthy}

\* C17: for every list of voices the vendor returns,
\* get_streaming_compatible_voices returns the voices whose
\* support_interactive_avatar is truthy, all of them and no other, in the
\* vendor's order; it returns the empty list when the request or its
\* decoding fails.
C17_CompatibleVoicesInOrder ==
    voices_run.called =>
        IF voices_run.response.kind = "voices"
        THEN LET voices == voices_run.response.voices
                 kept == Compatible(voices)
             IN  /\ Len(voices_run.returned) = Cardinality(kept)
                 /\ \A i \in kept :
                        voices_run.returned[Cardinality({j \in kept : j <= i})] = voices[i]
        ELSE voices_run.returned = <<>>

\* C17 witness: of three voices the first and the last are returned, in that
\* order; the second has the field, with a false value.
C17_Witness ==
    /\ voices_run.called
    /\ voices_run.response.kind = "voices"
    /\ Len(voices_run.response.voices) = 3
    /\ voices_run.response.voices[2].support_interactive_avatar = "0"
    /\ voices_run.returned =
           <<voices_run.response.voices[1], voices_run.response.voices[3]>>
    /\ voices_run.returned[1].voice_id # voices_run.returned[2].voice_id

----------------------------------------------------------------------------
(* HeyGenClient: the order of its calls.                                   *)

\* An attempt of start_session with no session_id, or of send_task with
\* session_active false, begins.
OutOfOrder ==
    /\ BeginAttempt
    /\ \/ Top.method = "start_session" /\ session_id = None
       \/ Top.method = "send_task" /\ ~session_active

\* C18: start_session with no session_id and send_task with session_active
\* false raise HeyGenAPIError, issue no HTTP request and change no field of
\* the client, on each attempt and for the call as a whole; session_active
\* turns true only in an attempt of start_session that returns.
C18_CreateStartTaskOrder ==
    [][/\ OutOfOrder =>
              /\ stack'[Len(stack)].result.kind = "raise"
              /\ stack'[Len(stack)].result.exc.type = "HeyGenAPIError"
              /\ n_requests' = n_requests
              /\ http_request' = http_request
              /\ UNCHANGED <<session_token, session_id, session_active>>
       /\ (last' # last /\ last'.method = "start_session" /\ session_id = None) =>
              /\ last'.result.kind = "raise"
              /\ last'.result.exc.type = "HeyGenAPIError"
              /\ last'.requests = 0
       /\ (last' # last /\ last'.method = "send_task" /\ ~session_active) =>
              /\ last'.result.kind = "raise"
              /\ last'.result.exc.type = "HeyGenAPIError"
              /\ last'.requests = 0
       /\ (~session_active /\ session_active') =>
              /\ BeginAttempt
              /\ Top.method = "start_session"
              /\ session_id # None
              /\ stack'[Len(stack)].result.kind = "return"
    ]_vars

\* C18 witness: a session is created and not started, and send_task has
\* raised HeyGenAPIError without a request.
C18_Witness ==
    /\ last.method = "send_task"
    /\ last.result.kind = "raise"
    /\ last.result.exc.type = "HeyGenAPIError"
    /\ last.requests = 0
    /\ session_id # None
    /\ ~session_active

----------------------------------------------------------------------------
(* HeyGenClient.stop_session.                                              *)

\* C19: every attempt of stop_session returns True and leaves session_active
\* False and session_id None, whatever the upstream answers; with session_id
\* None already it issues no request and changes no field.
C19_StopSessionAlwaysStops ==
    [][(BeginAttempt /\ Top.method = "stop_session") =>
          /\ stack'[Len(stack)].result.kind = "return"
          /\ stack'[Len(stack)].result.value = <<"bool", TRUE>>
          /\ ~session_active'
          /\ session_id' = None
          /\ session_id = None =>
                 /\ n_requests' = n_requests
                 /\ UNCHANGED <<session_token, session_id, session_active>>
    ]_vars

----------------------------------------------------------------------------
(* handle_api_errors: what the caller sees of httpx's exceptions.          *)

\* The HeyGenAPIError, or SessionLimitError, that stands for a failed HTTP
\* exchange: by the response's status, or none when the request itself raised.
ExpectedError(response) ==
    IF response = NoResponse THEN Exc("HeyGenAPIError", None, NoResponse)
    ELSE IF response.status = 400 /\ response.body = "limit"
    THEN Exc("SessionLimitError", Some(400), NoResponse)
    ELSE Exc("HeyGenAPIError", Some(response.status), NoResponse)

\* The frame's attempt raised, from a request that failed or was answered with
\* an error status (create_session answers a 400 itself, and raises no httpx
\* exception for it).
HttpxRaised(frame, response) ==
    /\ frame.result.kind = "raise"
    /\ frame.result.response = response
    /\ RaiseForStatus(response) # NoExc
    /\ ~(frame.method = "create_session" /\ response.status = 400)

\* C20: an attempt whose request raises httpx.RequestError, or whose answer
\* has an error status, ends with the HeyGenAPIError of that status (none
\* for a network error), or with SessionLimitError for a 400 whose JSON body
\* mentions the concurrent session limit; the call that ends with such an
\* attempt hands that exception to its caller.
C20_HttpxErrorsReachCallerAsHeyGenAPIError ==
    [][/\ \A response \in ErrorResponses \cup {NoResponse} :
              ( /\ BeginAttempt \/ ResumeCreate
                /\ n_requests' = n_requests + 1
                /\ HttpxRaised(stack'[Len(stack)], response) ) =>
                  stack'[Len(stack)].result.exc = ExpectedError(response)
       /\ \A response \in ErrorResponses \cup {NoResponse} :
              ( /\ Decide
                /\ last' # last
                /\ last'.requests > 0
                /\ last'.method \notin {"create_session", "stop_session"}
                /\ HttpxRaised(Top, response) ) =>
                  last'.result.exc = ExpectedError(response)
    ]_vars

----------------------------------------------------------------------------
(* SessionManager.update_session.                                          *)

\* What get_session(sid) returns when no Redis call raises.
Seen(sid) == GetSessionResult(sid, TRUE)

\* The copies of session sid: in the dictionary, in Redis.
Copies(sid) == {s[2] : s \in {t \in Stored : t[1] = sid}}

\* Every session but sid is as it was, and no deadline has changed.
OthersUnchanged(sid) ==
    /\ \A k \in SessionIds \ {sid} :
           /\ DictGet(sessions', k) = DictGet(sessions, k)
           /\ DictGet(redis', k) = DictGet(redis, k)
    /\ UNCHANGED session_timeouts

\* update_session(sid, updates) found a session, answered True and left it
\* with the updates merged into its data, last_activity refreshed, and its
\* id, user_id, created_at and active flag as they were.
MergedInto(sid) ==
    /\ sm_last'.ret = TRUE
    /\ \E old \in Copies(sid), updates \in Updates :
           /\ Seen(sid)' = Some([old EXCEPT !.last_activity = now,
                                            !.data = DictUpdate(old.data, updates)])
           /\ Seen(sid)'[1].id = old.id
           /\ Seen(sid)'[1].user_id = old.user_id
           /\ Seen(sid)'[1].created_at = old.created_at
           /\ Seen(sid)'[1].active = old.active
    /\ OthersUnchanged(sid)

\* C21: update_session of an id that get_session cannot find returns False
\* and leaves the registry as it was; of a stored session it returns True,
\* merges the updates into the session's data, refreshes last_activity and
\* leaves its id, user_id, created_at and active flag, and every other
\* session, unchanged.
C21_UpdateMergesOrReturnsFalse ==
    [][UpdateSession =>
        \E sid \in SessionIds :
            /\ sid = sm_last'.arg
            /\ (Copies(sid) = {}) => sm_last'.ret = FALSE
            /\ (sid \in DOMAIN sessions) => sm_last'.ret = TRUE
            /\ IF sm_last'.ret = FALSE
               THEN UNCHANGED <<sessions, session_timeouts, redis>>
               ELSE MergedInto(sid)
    ]_vars

----------------------------------------------------------------------------
(* The session registry under concurrent callers.                          *)

\* C22: when every create_session(u, ...) follows a can_create_session(u)
\* of the same coroutine that returned True, then under every interleaving
\* of the coroutines at their await points no user owns more than
\* max_concurrent_sessions stored sessions.
C22_CapHoldsUnderCheckThenCreate ==
    \A user_id \in Users : Cardinality(Owned(user_id)) <= max_concurrent_sessions

----------------------------------------------------------------------------
(* SessionManager.create_session: the ids.                                 *)

\* The ids of the stored sessions.
StoredIds == {s[1] : s \in Stored}

\* C23: create_session returns an id that no stored session has, and stores
\* one session more: it never overwrites a session (two creates of one user
\* within one clock second included).
C23_CreateReturnsFreshId ==
    [][CreateSession =>
        /\ sm_last'.ret \notin StoredIds
        /\ StoredIds' = StoredIds \cup {sm_last'.ret}
        /\ \A s \in Stored : s \in Stored'
    ]_vars

----------------------------------------------------------------------------
(* HeyGenClient: its fields.                                               *)

\* C24: in every state a new client reaches by calls of
\* generate_session_token, create_session, start_session, send_task and
\* stop_session, successful or failing, an active session has an id.
C24_ActiveSessionHasId == session_active => session_id # None

----------------------------------------------------------------------------
(* SessionManager: the deadline of a session.                              *)

\* The deadline create_session gave the session: its creation time plus
\* settings.session_timeout.
OriginalDeadline(session) == session.created_at + TimeoutTicks

----------------------------------------------------------------------------
(* SessionManager: the sessions it returns and the sessions it counts.     *)

\* The ids whose session get_session returns, Redis answering or not, with
\* user_id as its owner.
CanReturn(user_id) ==
    {sid \in SessionIds :
        \E redis_ok \in Outcomes :
            /\ GetSessionResult(sid, redis_ok) # None
            /\ GetSessionResult(sid, redis_ok)[1].user_id = user_id}

\* C26: every session get_session can return is counted by
\* get_active_session_count for its owner, with or without a Redis client,
\* the sessions of the in-memory fallback included.
C26_ReturnedSessionsAreCounted ==
    \A user_id \in Callers :
        Cardinality(CanReturn(user_id))
            <= get_active_session_count(user_id, RedisLive(redis, now), TRUE)

----------------------------------------------------------------------------
(* CircuitBreaker: the failed probe.                                       *)

\* C27: a call whose function raises while the breaker is HALF_OPEN puts the
\* breaker back to OPEN with last_failure_time set to the time of that
\* failure; the next call that is let through comes more than
\* recovery_timeout after it.
C27_FailedProbeReopens ==
    [][/\ (CBFuncRaises /\ cb.state = "HALF_OPEN") =>
              /\ cb'.state = "OPEN"
              /\ cb'.last_failure_time = Some(now)
       /\ (CBCallEnter /\ cb.state = "OPEN" /\ cb_last'.invoked) =>
              now - cb.last_failure_time[1] > cb.recovery_timeout * TicksPerSec
    ]_vars

\* C27 witness: the probe failed, the breaker is OPEN again, and a call made
\* within the new cooldown, though past the old one, was rejected.
C27_Witness ==
    /\ cb.state = "OPEN"
    /\ cb.failure_count > cb.failure_threshold
    /\ cb_last.outcome = "CircuitBreakerError"
    /\ now - cb.last_failure_time[1] > 0
    /\ now > (cb.recovery_timeout * TicksPerSec) * 2

----------------------------------------------------------------------------
(* app.py: the session the page marks inactive.                            *)

\* C28: when a run of the script leaves st.session_state.session_active
\* False (cleanup_on_startup, or a Stop Session click, set it), the
\* HeyGenAvatarSession kept in st.session_state, if any, has session_id None:
\* no session is marked inactive while the vendor still has it open.
C28_InactiveSessionIsClosed ==
    (st_session_state.has_key /\ ~st_session_state.session_active) =>
        \/ st_session_state.heygen_session = None
        \/ st_session_state.heygen_session[1].session_id = None

----------------------------------------------------------------------------
(* HeyGenClient.session_token.                                             *)

\* C29: a stored session_token is not cleared, and is replaced only by a
\* generate_session_token the caller itself awaits: not by create_session,
\* start_session, send_task, get_session_info or stop_session, nor by any
\* upstream error; create_session awaits generate_session_token only with
\* no token stored, so it brings about one successful generation at most.
C29_TokenKeptOnceSet ==
    [][/\ session_token # None => session_token' # None
       /\ (session_token # None /\ session_token' # session_token) =>
              /\ BeginAttempt
              /\ Len(stack) = 1
              /\ Top.method = "generate_session_token"
       /\ (Len(stack) = 1 /\ Len(stack') = 2) =>
              /\ Top.method = "create_session"
              /\ session_token = None
       /\ (Len(stack) = 2 /\ session_token' # session_token) => session_token = None
    ]_vars

\* C29 witness: a create_session generated the token on its first attempt,
\* failed three times at streaming.new, and the token is still the one of
\* its single token request.
C29_Witness ==
    /\ last.method = "create_session"
    /\ last.attempts = StopAfterAttempt
    /\ last.result.kind = "raise"
    /\ last.requests = StopAfterAttempt + 1
    /\ session_token # None
    /\ http_request.endpoint = "streaming.new"
    /\ http_request.bearer = session_token

----------------------------------------------------------------------------
(* SessionManager.delete_session.                                          *)

\* C30: delete_session(sid) returns True; after it sid is in neither
\* sessions nor session_timeouts; every other session and deadline is as it
\* was; and the delete of an id that is not stored, in the dictionaries
\* or in Redis, leaves the registry exactly as it was.
C30_DeleteIsIdempotent ==
    [][DeleteSession =>
        \E sid \in SessionIds :
            /\ sid = sm_last'.arg
            /\ sm_last'.ret = TRUE
            /\ sid \notin DOMAIN sessions'
            /\ sid \notin DOMAIN session_timeouts'
            /\ \A k \in SessionIds \ {sid} :
                   /\ DictGet(sessions', k) = DictGet(sessions, k)
                   /\ DictGet(session_timeouts', k) = DictGet(session_timeouts, k)
                   /\ DictGet(redis', k) = DictGet(redis, k)
            /\ (sid \notin StoredIds \cup DOMAIN session_timeouts) =>
                   UNCHANGED <<sessions, session_timeouts, redis>>
    ]_vars

\* C30 witness: the last call deleted an id of the first second that is
\* stored no more, in a later second, while another session is stored with
\* its deadline.
C30_Witness ==
    /\ sm_last.op = "delete_session"
    /\ sm_last.ret = TRUE
    /\ sm_last.arg \notin StoredIds \cup DOMAIN session_timeouts
    /\ sm_last.arg[2] = 0
    /\ now >= TicksPerSec
    /\ StoredIds # {}
    /\ DOMAIN session_timeouts = StoredIds

====
